---- MODULE Spec2Model ----
(***************************************************************************)
(* Model of tutorials/cosyne_2020/NWB_tutorial_2019.ipynb: a notebook that *)
(* builds an NWBFile in memory, writes it to 'test_ephys.nwb' twice and    *)
(* reads it back in two read sessions.  One action per statement (or per   *)
(* loop iteration) of the notebook's code cells, run top to bottom.        *)
(***************************************************************************)
EXTENDS Integers, Sequences, FiniteSets, TLC

VARIABLES
    pc,                 \* the statement the kernel executes next
    nwbfile,            \* the in-memory NWBFile object graph
    shankn,             \* loop variable of both `for shankn, ... in enumerate`
    ielec,              \* loop variable of `for ielec in range(nelecs)`
    electrode_group,    \* name of the group bound by create_electrode_group
    electrode_counter,  \* the notebook's counter
    all_table_region,   \* result of create_electrode_table_region
    lfp_data,           \* np.random.randn(100, 7): a sequence of rows
    n_units,            \* the value np.random.poisson(lam=5) gave to range()
    n_units_per_shank,  \* loop variable of the inner spike-time loop
    seed,               \* state of numpy's random generator
    spatial_series_object, \* the SpatialSeries built by cell 'Position'
    it,                 \* <<items the outer for has yielded, items the inner for has yielded>>
    file,               \* content of 'test_ephys.nwb' on disk
    handles,            \* every NWBHDF5IO object made so far: [mode, open]
    io,                 \* index in handles the name `io` is bound to (0: unbound)
    nwbfile2,           \* index of the handle whose read() produced nwbfile2 (0: unbound)
    printed,            \* what the cells printed, in order
    ops,                \* history: kinds of operations performed, in order
    unit_args,          \* history: the spike_times passed to each add_unit
    drawn,              \* history: the unit counts np.random.poisson(lam=5) returned
    written,            \* history: nwbfile as it was at each io.write
    observed            \* history: the content seen by each io.read()

vars == <<pc, nwbfile, shankn, ielec, electrode_group, electrode_counter,
          all_table_region, lfp_data, n_units, n_units_per_shank, seed,
          spatial_series_object, it, file,
          handles, io, nwbfile2, printed, ops, unit_args, drawn, written,
          observed>>

----------------------------------------------------------------------------
(* Bounds of the model *)

\* largest value a draw of np.random.poisson(lam=5) takes in the model
MaxUnitsPerShank == 1

\* largest value a draw of np.random.poisson(lam=10) takes in the model
MaxSpikes == 2

\* number of distinct states of the random generator
NumSeeds == 2

----------------------------------------------------------------------------
(* Literals of the notebook *)

\* a fourth channel on the second shank, with randn(100, 7) left as it is
shank_channels_4_4 == <<4, 4>>

shank_channels == <<4, 3>>

LfpRows == 100

LfpCols == 7

PositionRows == 100

\* np.linspace(0, 100) has no `num` argument: numpy's default number of samples
LinspaceNum == 50

SliceRows == 10

SliceCols == 5

----------------------------------------------------------------------------
(* Arrays *)

Min(a, b) == IF a < b THEN a ELSE b

Abs(x) == IF x < 0 THEN -x ELSE x

\* one draw of the standard normal generator: the k-th sample under seed s
Randn(s, k) == ((s * 37 + k * 11) % 23) - 11

\* np.random.randn(r, c): rows filled in row-major order of the draws
RandnArray(s, r, c) ==
    [i \in 1..r |-> [j \in 1..c |-> Randn(s, (i - 1) * c + j)]]

\* np.abs(np.random.randn(n)) for the u-th unit added
SpikeDraw(s, u, n) == [j \in 1..n |-> Abs(Randn(s + u, u * 5 + j))]

\* np.array([np.linspace(0, 10, 100), np.linspace(1, 8, 100)]).T in units of 1/99
PositionData ==
    [i \in 1..PositionRows |-> <<10 * (i - 1), (PositionRows - 1) + 7 * (i - 1)>>]

\* np.linspace(0, 100) / 200 in units of 1/(2 * 49)
PositionTimestamps == [k \in 1..LinspaceNum |-> k - 1]

NRows(a) == Len(a)

NCols(a) == IF Len(a) = 0 THEN 0 ELSE Len(a[1])

\* an HDF5 dataset of a 2-D array: shape and a row-major buffer
H5Dataset(a) ==
    [shape |-> <<NRows(a), NCols(a)>>,
     data  |-> [k \in 1..(NRows(a) * NCols(a)) |->
                   a[((k - 1) \div NCols(a)) + 1][((k - 1) % NCols(a)) + 1]]]

\* h5py hyperslab read ds[r0:r1, c0:c1] (numpy slicing clamps to the shape)
H5Slice(ds, r0, r1, c0, c1) ==
    LET re == Min(r1, ds.shape[1])
        ce == Min(c1, ds.shape[2])
        nr == IF re > r0 THEN re - r0 ELSE 0
        nc == IF ce > c0 THEN ce - c0 ELSE 0
    IN  [i \in 1..nr |-> [j \in 1..nc |->
            ds.data[(r0 + i - 1) * ds.shape[2] + (c0 + j - 1) + 1]]]

\* ds[:]
H5All(ds) == H5Slice(ds, 0, ds.shape[1], 0, ds.shape[2])

----------------------------------------------------------------------------
(* DynamicTable columns *)

EmptyUnits == [id |-> <<>>, spike_times |-> <<>>, spike_times_index |-> <<>>]

\* Units.add_unit(spike_times=st): the ragged column is a flat VectorData
\* plus a VectorIndex of end offsets; the row id defaults to the row count
AddUnit(units, st) ==
    [id                |-> Append(units.id, Len(units.id)),
     spike_times       |-> units.spike_times \o st,
     spike_times_index |-> Append(units.spike_times_index,
                                  Len(units.spike_times) + Len(st))]

\* units['spike_times'][i], i counted from 0
IndexedGet(units, i) ==
    LET start == IF i = 0 THEN 0 ELSE units.spike_times_index[i]
        end   == units.spike_times_index[i + 1]
    IN  SubSeq(units.spike_times, start + 1, end)

NumUnits(units) == Len(units.spike_times_index)

EmptyTrials == [columns |-> <<>>, start_time |-> <<>>, stop_time |-> <<>>,
                correct |-> <<>>]

AddTrial(trials, start, stop, correct) ==
    [trials EXCEPT !.start_time = Append(@, start),
                   !.stop_time = Append(@, stop),
                   !.correct = Append(@, correct)]

----------------------------------------------------------------------------
(* The NWBFile object and the HDF5 file *)

\* the name nwbfile before the first cell ran
Unbound ==
    [identifier |-> <<>>, subject |-> <<>>, behavior |-> <<>>,
     trials |-> EmptyTrials, electrode_columns |-> <<>>, devices |-> <<>>,
     electrode_groups |-> <<>>, electrodes |-> <<>>, ecephys |-> <<>>,
     units |-> EmptyUnits]

\* no file at Path, or a file just truncated
NoFile == [exists |-> FALSE, root |-> <<>>]

EmptyH5 == [exists |-> TRUE, root |-> <<>>]

\* what io.write(nwbfile) builds: tables by column, arrays as datasets
Build(nwb) ==
    [identifier |-> nwb.identifier,
     subject |-> nwb.subject,
     behavior |-> [k \in 1..Len(nwb.behavior) |->
         [name |-> nwb.behavior[k].name,
          data |-> H5Dataset(nwb.behavior[k].data),
          timestamps |-> nwb.behavior[k].timestamps]],
     trials |-> nwb.trials,
     devices |-> nwb.devices,
     electrode_groups |-> nwb.electrode_groups,
     electrodes |->
         [id    |-> [k \in 1..Len(nwb.electrodes) |-> nwb.electrodes[k].id],
          group |-> [k \in 1..Len(nwb.electrodes) |-> nwb.electrodes[k].group],
          label |-> [k \in 1..Len(nwb.electrodes) |-> nwb.electrodes[k].label]],
     ecephys |-> [k \in 1..Len(nwb.ecephys) |->
         [name |-> nwb.ecephys[k].name,
          data |-> H5Dataset(nwb.ecephys[k].data),
          electrodes |-> nwb.ecephys[k].electrodes]],
     units |-> nwb.units]

\* the content a reader of the file gets: arrays rebuilt from their datasets,
\* the ragged column split into one sequence per unit
Content(f) ==
    IF f.root = <<>> THEN <<>>
    ELSE LET g == f.root[1] IN
         <<[lfp   |-> [k \in 1..Len(g.ecephys) |-> H5All(g.ecephys[k].data)],
            units |-> [u \in 1..NumUnits(g.units) |-> IndexedGet(g.units, u - 1)]]>>

----------------------------------------------------------------------------
(* Control: the code cells in notebook order, each with its first statement *)

\* the order the specification's overview gives: one write, after the units
CellOrderWriteLast ==
    <<"SetUp", "Subject", "Position", "Behavior", "Trials", "Write",
      "Electrodes", "LFP", "SpikeTimes", "WriteRead", "Regions">>

\* the write-and-read cell placed before the spike-time cell
CellOrderReadBeforeUnits ==
    <<"SetUp", "Subject", "Position", "Behavior", "Write", "Trials",
      "Electrodes", "LFP", "WriteRead", "SpikeTimes", "Regions">>

CellOrder ==
    <<"SetUp", "Subject", "Position", "Behavior", "Write", "Trials",
      "Electrodes", "LFP", "SpikeTimes", "WriteRead", "Regions">>

FirstStmt(cell) ==
    CASE cell = "SetUp"      -> "create"
      [] cell = "Subject"    -> "subject"
      [] cell = "Position"   -> "spatial_series"
      [] cell = "Behavior"   -> "behavior"
      [] cell = "Write"      -> "w1_open"
      [] cell = "Trials"     -> "trial_column"
      [] cell = "Electrodes" -> "electrode_column"
      [] cell = "LFP"        -> "lfp"
      [] cell = "SpikeTimes" -> "units_for"
      [] cell = "WriteRead"  -> "w2_open"
      [] cell = "Regions"    -> "r2_open"

CellIndex(cell) == CHOOSE k \in 1..Len(CellOrder) : CellOrder[k] = cell

\* the statement run after the last statement of `cell`
After(cell) ==
    IF CellIndex(cell) = Len(CellOrder) THEN "done"
    ELSE FirstStmt(CellOrder[CellIndex(cell) + 1])

Log(kind) == ops' = Append(ops, kind)

AnyOpen == \E h \in 1..Len(handles) : handles[h].open

----------------------------------------------------------------------------
(* NWBHDF5IO *)

\* NWBHDF5IO(Path, mode): mode 'w' creates or truncates the file, mode 'r'
\* needs an existing file; `io` is bound to the new object
OpenFile(mode) ==
    /\ handles' = Append(handles, [mode |-> mode, open |-> TRUE])
    /\ io' = Len(handles) + 1
    /\ file' = IF mode = "w" THEN EmptyH5 ELSE file

\* io.close(), also the __exit__ of `with ... as io`
CloseFile ==
    handles' = [handles EXCEPT ![io].open = FALSE]

\* io.write(nwbfile) on a handle opened in mode 'w'
WriteFile ==
    /\ handles[io].open /\ handles[io].mode = "w"
    /\ file' = [exists |-> TRUE, root |-> <<Build(nwbfile)>>]
    /\ written' = Append(written, nwbfile)

\* the lazily-backed object can be indexed only while its handle is open
Readable == nwbfile2 > 0 /\ handles[nwbfile2].open /\ file.root # <<>>

----------------------------------------------------------------------------
(* Initial state: nothing is bound, no file at Path *)

Init ==
    /\ pc = FirstStmt(CellOrder[1])
    /\ nwbfile = Unbound
    /\ shankn = -1
    /\ ielec = -1
    /\ electrode_group = <<>>
    /\ electrode_counter = -1
    /\ all_table_region = <<>>
    /\ lfp_data = <<>>
    /\ n_units = -1
    /\ n_units_per_shank = -1
    /\ seed \in 1..NumSeeds
    /\ spatial_series_object = <<>>
    /\ it = <<0, 0>>
    /\ file = NoFile
    /\ handles = <<>>
    /\ io = 0
    /\ nwbfile2 = 0
    /\ printed = <<>>
    /\ ops = <<>>
    /\ unit_args = <<>>
    /\ drawn = <<>>
    /\ written = <<>>
    /\ observed = <<>>

loopVars == <<shankn, ielec, electrode_group, electrode_counter, it, n_units,
              n_units_per_shank>>

dataVars == <<all_table_region, lfp_data, seed, spatial_series_object, unit_args,
              drawn>>

ioVars == <<file, handles, io, nwbfile2, printed, written, observed>>

----------------------------------------------------------------------------
(* Cells 'Set up NWB file', 'Subject info', 'Position' *)

Create ==
    /\ pc = "create"
    /\ nwbfile' = [Unbound EXCEPT !.identifier = <<"Mouse5_Day3">>]
    /\ Log("create")
    /\ pc' = After("SetUp")
    /\ UNCHANGED <<loopVars, dataVars, ioVars>>

SetSubject ==
    /\ pc = "subject"
    /\ nwbfile' = [nwbfile EXCEPT !.subject = <<"mouse 5">>]
    /\ Log("subject")
    /\ pc' = After("Subject")
    /\ UNCHANGED <<loopVars, dataVars, ioVars>>

MakeSpatialSeries ==
    /\ pc = "spatial_series"
    /\ spatial_series_object' =
           <<[name |-> "position", data |-> PositionData,
              timestamps |-> PositionTimestamps]>>
    /\ pc' = After("Position")
    /\ UNCHANGED <<nwbfile, ops, loopVars, all_table_region, lfp_data, seed,
                   unit_args, drawn, ioVars>>

AddBehavior ==
    /\ pc = "behavior"
    /\ nwbfile' = [nwbfile EXCEPT !.behavior = spatial_series_object]
    /\ Log("behavior")
    /\ pc' = After("Behavior")
    /\ UNCHANGED <<loopVars, dataVars, ioVars>>

----------------------------------------------------------------------------
(* Statements on the file handle *)

\* io = NWBHDF5IO(Path, mode), or the __enter__ of `with NWBHDF5IO(...) as io`
OpenStmt(at, mode, next) ==
    /\ pc = at
    /\ IF mode = "r" /\ ~file.exists
       THEN pc' = "halted" /\ UNCHANGED <<file, handles, io>>
       ELSE pc' = next /\ OpenFile(mode)
    /\ UNCHANGED <<nwbfile, ops, loopVars, dataVars, nwbfile2, printed, written,
                   observed>>

\* io.write(nwbfile)
WriteStmt(at, next) ==
    /\ pc = at
    /\ WriteFile
    /\ Log("write")
    /\ pc' = next
    /\ UNCHANGED <<nwbfile, loopVars, dataVars, handles, io, nwbfile2, printed,
                   observed>>

\* the end of a with block: __exit__ closes the handle; after an exception
\* the kernel stops running cells
ExitStmt(at, unwinding, next) ==
    /\ pc \in {at, unwinding}
    /\ CloseFile
    /\ pc' = IF pc = unwinding THEN "halted" ELSE next
    /\ UNCHANGED <<nwbfile, ops, loopVars, dataVars, file, io, nwbfile2, printed,
                   written, observed>>

\* nwbfile2 = io.read(); the read can raise (ok = FALSE)
ReadStmt(at, next, raised) ==
    /\ pc = at
    /\ \E ok \in BOOLEAN :
         IF ok /\ handles[io].open /\ file.root # <<>>
         THEN /\ nwbfile2' = io
              /\ observed' = Append(observed, Content(file))
              /\ Log("read")
              /\ pc' = next
         ELSE /\ pc' = raised
              /\ UNCHANGED <<nwbfile2, observed, ops>>
    /\ UNCHANGED <<nwbfile, loopVars, dataVars, file, handles, io, printed, written>>

\* print(nwbfile2.modules['ecephys']['LFP'].electrical_series['lfp'].data[r0:r1, c0:c1])
PrintLfp(at, r1, c1, next, raised) ==
    /\ pc = at
    /\ \E ok \in BOOLEAN :
         IF ok /\ Readable /\ Len(file.root[1].ecephys) > 0
         THEN /\ printed' = Append(printed,
                    [stmt |-> at,
                     value |-> H5Slice(file.root[1].ecephys[1].data, 0, r1, 0, c1)])
              /\ Log("index")
              /\ pc' = next
         ELSE /\ pc' = raised
              /\ UNCHANGED <<printed, ops>>
    /\ UNCHANGED <<nwbfile, loopVars, dataVars, file, handles, io, nwbfile2, written,
                   observed>>

\* print(nwbfile2.units['spike_times'][0])
PrintSpikes(at, next, raised) ==
    /\ pc = at
    /\ \E ok \in BOOLEAN :
         IF ok /\ Readable /\ NumUnits(file.root[1].units) > 0
         THEN /\ printed' = Append(printed,
                    [stmt |-> at, value |-> IndexedGet(file.root[1].units, 0)])
              /\ Log("index")
              /\ pc' = next
         ELSE /\ pc' = raised
              /\ UNCHANGED <<printed, ops>>
    /\ UNCHANGED <<nwbfile, loopVars, dataVars, file, handles, io, nwbfile2, written,
                   observed>>

\* io.close() as a statement of its own
CloseStmt(at, next) ==
    /\ pc = at
    /\ CloseFile
    /\ pc' = next
    /\ UNCHANGED <<nwbfile, ops, loopVars, dataVars, file, io, nwbfile2, printed,
                   written, observed>>

----------------------------------------------------------------------------
(* Cell 'Write to file' *)

Write1Open == OpenStmt("w1_open", "w", "w1_write")

Write1 == WriteStmt("w1_write", "w1_exit")

Write1Exit == ExitStmt("w1_exit", "w1_unwind", After("Write"))

----------------------------------------------------------------------------
(* Cell 'Trials' *)

AddTrialColumn ==
    /\ pc = "trial_column"
    /\ nwbfile' = [nwbfile EXCEPT !.trials.columns = Append(@, "correct")]
    /\ Log("trials")
    /\ pc' = "add_trial_1"
    /\ UNCHANGED <<loopVars, dataVars, ioVars>>

AddTrial1 ==
    /\ pc = "add_trial_1"
    /\ nwbfile' = [nwbfile EXCEPT !.trials = AddTrial(@, 1, 5, TRUE)]
    /\ Log("trials")
    /\ pc' = "add_trial_2"
    /\ UNCHANGED <<loopVars, dataVars, ioVars>>

AddTrial2 ==
    /\ pc = "add_trial_2"
    /\ nwbfile' = [nwbfile EXCEPT !.trials = AddTrial(@, 6, 10, FALSE)]
    /\ Log("trials")
    /\ pc' = After("Trials")
    /\ UNCHANGED <<loopVars, dataVars, ioVars>>

----------------------------------------------------------------------------
(* Cell 'Electrodes table' *)

\* nelecs, bound together with shankn by enumerate(shank_channels)
nelecs == shank_channels[shankn + 1]

AddElectrodeColumn ==
    /\ pc = "electrode_column"
    /\ nwbfile' = [nwbfile EXCEPT !.electrode_columns = Append(@, "label")]
    /\ Log("electrodes")
    /\ pc' = "counter_init"
    /\ UNCHANGED <<loopVars, dataVars, ioVars>>

CounterInit ==
    /\ pc = "counter_init"
    /\ electrode_counter' = 0
    /\ pc' = "create_device"
    /\ UNCHANGED <<nwbfile, ops, shankn, ielec, electrode_group, it, n_units,
                   n_units_per_shank, dataVars, ioVars>>

\* device = nwbfile.create_device('implant'), then enumerate(shank_channels)
CreateDevice ==
    /\ pc = "create_device"
    /\ nwbfile' = [nwbfile EXCEPT !.devices = Append(@, "implant")]
    /\ it' = <<0, 0>>
    /\ Log("electrodes")
    /\ pc' = "elec_for"
    /\ UNCHANGED <<shankn, ielec, electrode_group, electrode_counter, n_units,
                   n_units_per_shank, dataVars, ioVars>>

\* for shankn, nelecs in enumerate(shank_channels):
ElecFor ==
    /\ pc = "elec_for"
    /\ IF it[1] < Len(shank_channels)
       THEN /\ shankn' = it[1]
            /\ it' = <<it[1] + 1, 0>>
            /\ pc' = "create_group"
       ELSE /\ pc' = "create_region"
            /\ UNCHANGED <<shankn, it>>
    /\ UNCHANGED <<nwbfile, ops, ielec, electrode_group, electrode_counter, n_units,
                   n_units_per_shank, dataVars, ioVars>>

CreateElectrodeGroup ==
    /\ pc = "create_group"
    /\ electrode_group' = <<"shank", shankn>>
    /\ nwbfile' = [nwbfile EXCEPT !.electrode_groups =
                      Append(@, [name |-> <<"shank", shankn>>, device |-> "implant"])]
    /\ Log("electrodes")
    /\ pc' = "elec_inner"
    /\ UNCHANGED <<shankn, ielec, electrode_counter, it, n_units, n_units_per_shank,
                   dataVars, ioVars>>

\* for ielec in range(nelecs):
ElecInner ==
    /\ pc = "elec_inner"
    /\ IF it[2] < nelecs
       THEN /\ ielec' = it[2]
            /\ it' = <<it[1], it[2] + 1>>
            /\ pc' = "add_electrode"
       ELSE /\ pc' = "elec_for"
            /\ UNCHANGED <<ielec, it>>
    /\ UNCHANGED <<nwbfile, ops, shankn, electrode_group, electrode_counter, n_units,
                   n_units_per_shank, dataVars, ioVars>>

\* nwbfile.add_electrode(..., group=electrode_group, label=...): the row id
\* defaults to the number of rows already in the table
AddElectrode ==
    /\ pc = "add_electrode"
    /\ nwbfile' = [nwbfile EXCEPT !.electrodes =
                      Append(@, [id |-> Len(nwbfile.electrodes),
                                 group |-> electrode_group,
                                 label |-> <<shankn, ielec>>])]
    /\ Log("electrodes")
    /\ pc' = "counter_incr"
    /\ UNCHANGED <<loopVars, dataVars, ioVars>>

\* the counter taken from the per-shank index: electrode_counter = ielec + 1
CounterIncrPerShank ==
    /\ pc = "counter_incr"
    /\ electrode_counter' = ielec + 1
    /\ pc' = "elec_inner"
    /\ UNCHANGED <<nwbfile, ops, shankn, ielec, electrode_group, it, n_units,
                   n_units_per_shank, dataVars, ioVars>>

\* electrode_counter += 1
CounterIncr ==
    /\ pc = "counter_incr"
    /\ electrode_counter' = electrode_counter + 1
    /\ pc' = "elec_inner"
    /\ UNCHANGED <<nwbfile, ops, shankn, ielec, electrode_group, it, n_units,
                   n_units_per_shank, dataVars, ioVars>>

\* list(range(n))
Range(n) == [k \in 1..n |-> k - 1]

\* nwbfile.create_electrode_table_region(list(range(electrode_counter)), ...):
\* an index that is no row of the electrodes table raises IndexError
CreateRegion ==
    /\ pc = "create_region"
    /\ LET region == Range(electrode_counter) IN
       IF \A k \in 1..Len(region) : region[k] < Len(nwbfile.electrodes)
       THEN /\ all_table_region' = region
            /\ Log("electrodes")
            /\ pc' = After("Electrodes")
       ELSE /\ pc' = "halted"
            /\ UNCHANGED <<all_table_region, ops>>
    /\ UNCHANGED <<nwbfile, loopVars, lfp_data, seed, spatial_series_object,
                   unit_args, drawn, ioVars>>

----------------------------------------------------------------------------
(* Cell 'LFP' *)

DrawLfp ==
    /\ pc = "lfp"
    /\ lfp_data' = RandnArray(seed, LfpRows, LfpCols)
    /\ pc' = "add_lfp"
    /\ UNCHANGED <<nwbfile, ops, loopVars, all_table_region, seed,
                   spatial_series_object, unit_args, drawn, ioVars>>

\* ecephys_module.add_data_interface(LFP(ElectricalSeries('lfp', lfp_data,
\* all_table_region, ...)))
AddLfp ==
    /\ pc = "add_lfp"
    /\ nwbfile' = [nwbfile EXCEPT !.ecephys =
                      Append(@, [name |-> "lfp", data |-> lfp_data,
                                 electrodes |-> all_table_region])]
    /\ Log("lfp")
    /\ pc' = After("LFP")
    /\ UNCHANGED <<loopVars, dataVars, ioVars>>

----------------------------------------------------------------------------
(* Cell 'Spike Times' *)

\* enumerate(shank_channels)
UnitsIter ==
    /\ pc = "units_for"
    /\ it' = <<0, 0>>
    /\ pc' = "units_next"
    /\ UNCHANGED <<nwbfile, ops, shankn, ielec, electrode_group, electrode_counter,
                   n_units, n_units_per_shank, dataVars, ioVars>>

\* for shankn, channels in enumerate(shank_channels): and the evaluation of
\* range(np.random.poisson(lam=5)) for the inner loop
UnitsFor ==
    /\ pc = "units_next"
    /\ IF it[1] < Len(shank_channels)
       THEN /\ shankn' = it[1]
            /\ \E n \in 0..MaxUnitsPerShank :
                   n_units' = n /\ drawn' = Append(drawn, n)
            /\ it' = <<it[1] + 1, 0>>
            /\ pc' = "units_inner"
       ELSE /\ pc' = After("SpikeTimes")
            /\ UNCHANGED <<shankn, n_units, it, drawn>>
    /\ UNCHANGED <<nwbfile, ops, ielec, electrode_group, electrode_counter,
                   n_units_per_shank, all_table_region, lfp_data, seed,
                   spatial_series_object, unit_args, ioVars>>

\* the inner loop running once more than the draw: range(n + 1)
UnitsInnerOneMore ==
    /\ pc = "units_inner"
    /\ IF it[2] < n_units + 1
       THEN /\ n_units_per_shank' = it[2]
            /\ it' = <<it[1], it[2] + 1>>
            /\ pc' = "add_unit"
       ELSE /\ pc' = "units_next"
            /\ UNCHANGED <<n_units_per_shank, it>>
    /\ UNCHANGED <<nwbfile, ops, shankn, ielec, electrode_group, electrode_counter,
                   n_units, dataVars, ioVars>>

\* for n_units_per_shank in range(...):
UnitsInner ==
    /\ pc = "units_inner"
    /\ IF it[2] < n_units
       THEN /\ n_units_per_shank' = it[2]
            /\ it' = <<it[1], it[2] + 1>>
            /\ pc' = "add_unit"
       ELSE /\ pc' = "units_next"
            /\ UNCHANGED <<n_units_per_shank, it>>
    /\ UNCHANGED <<nwbfile, ops, shankn, ielec, electrode_group, electrode_counter,
                   n_units, dataVars, ioVars>>

\* n_spikes = np.random.poisson(lam=10); spike_times = np.abs(np.random.randn(n_spikes));
\* nwbfile.add_unit(spike_times=spike_times)
AddUnitStmt ==
    /\ pc = "add_unit"
    /\ \E n_spikes \in 0..MaxSpikes :
         LET spike_times == SpikeDraw(seed, Len(unit_args) + 1, n_spikes) IN
         /\ nwbfile' = [nwbfile EXCEPT !.units = AddUnit(@, spike_times)]
         /\ unit_args' = Append(unit_args, spike_times)
    /\ Log("units")
    /\ pc' = "units_inner"
    /\ UNCHANGED <<loopVars, all_table_region, lfp_data, seed, spatial_series_object,
                   drawn, ioVars>>

----------------------------------------------------------------------------
(* Cell 'Write and read' *)

Write2Open == OpenStmt("w2_open", "w", "w2_write")

Write2 == WriteStmt("w2_write", "w2_exit")

Write2Exit == ExitStmt("w2_exit", "w2_unwind", "r1_open")

Read1Open == OpenStmt("r1_open", "r", "r1_read")

Read1 == ReadStmt("r1_read", "r1_print", "r1_unwind")

\* the whole-array print replaced by a print of a section
Read1PrintSection == PrintLfp("r1_print", SliceRows, SliceCols, "r1_exit", "r1_unwind")

Read1Print == PrintLfp("r1_print", LfpRows, LfpCols, "r1_exit", "r1_unwind")

Read1Exit == ExitStmt("r1_exit", "r1_unwind", After("WriteRead"))

----------------------------------------------------------------------------
(* Cell 'Accessing data regions': no with block, so an exception skips io.close() *)

\* the second read session opened in mode 'w'
Read2OpenTruncating == OpenStmt("r2_open", "w", "r2_read")

Read2Open == OpenStmt("r2_open", "r", "r2_read")

Read2 == ReadStmt("r2_read", "r2_section", "halted")

\* the two slice bounds swapped: data[:5,:10]
Read2SectionSwapped == PrintLfp("r2_section", SliceCols, SliceRows, "r2_spikes", "halted")

Read2Section == PrintLfp("r2_section", SliceRows, SliceCols, "r2_spikes", "halted")

Read2Spikes == PrintSpikes("r2_spikes", "r2_close", "halted")

Read2Close == CloseStmt("r2_close", After("Regions"))

----------------------------------------------------------------------------

Next ==
    \/ Create \/ SetSubject \/ MakeSpatialSeries \/ AddBehavior
    \/ Write1Open \/ Write1 \/ Write1Exit
    \/ AddTrialColumn \/ AddTrial1 \/ AddTrial2
    \/ AddElectrodeColumn \/ CounterInit \/ CreateDevice \/ ElecFor
    \/ CreateElectrodeGroup \/ ElecInner \/ AddElectrode \/ CounterIncr
    \/ CreateRegion
    \/ DrawLfp \/ AddLfp
    \/ UnitsIter \/ UnitsFor \/ UnitsInner \/ AddUnitStmt
    \/ Write2Open \/ Write2 \/ Write2Exit
    \/ Read1Open \/ Read1 \/ Read1Print \/ Read1Exit
    \/ Read2Open \/ Read2 \/ Read2Section \/ Read2Spikes \/ Read2Close

Spec == Init /\ [][Next]_vars

----------------------------------------------------------------------------
(* Helpers of the properties *)

RECURSIVE Sum(_)
Sum(q) == IF q = <<>> THEN 0 ELSE q[1] + Sum(Tail(q))

\* q without consecutive repetitions
RECURSIVE Collapse(_)
Collapse(q) ==
    IF Len(q) <= 1 THEN q
    ELSE IF q[1] = q[2] THEN Collapse(Tail(q))
         ELSE <<q[1]>> \o Collapse(Tail(q))

IsPrefix(q, r) == Len(q) <= Len(r) /\ SubSeq(r, 1, Len(q)) = q

Without(q, x) == SelectSeq(q, LAMBDA e : e # x)

\* the run ended: every cell ran, or an exception stopped the kernel
Finished == pc \in {"done", "halted"}

OpenHandles == {h \in 1..Len(handles) : handles[h].open}

PrintedBy(stmt) == {k \in 1..Len(printed) : printed[k].stmt = stmt}

AttachKinds == {"subject", "behavior", "trials", "electrodes", "lfp", "units"}

----------------------------------------------------------------------------
(* C1: order of the operations on the file object *)

SpecOrder ==
    <<"create", "subject", "behavior", "trials", "electrodes", "lfp", "units",
      "write", "read", "index">>

CodeOrder ==
    <<"create", "subject", "behavior", "write", "trials", "electrodes", "lfp",
      "units", "write", "read", "index", "read", "index">>

\* a run where no unit is drawn performs no attach-units operation
FollowsOrder(order) ==
    \/ IsPrefix(Collapse(ops), order)
    \/ IsPrefix(Collapse(ops), Without(order, "units"))

\* C1 as stated: the operations follow create, subject, behavioral series,
\* trials, electrodes, LFP, units, write, read, slice-read; no attach step
\* happens after a write
C1_SpecOrder ==
    /\ FollowsOrder(SpecOrder)
    /\ \A i, j \in 1..Len(ops) :
         (i < j /\ ops[i] = "write") => ops[j] \notin AttachKinds

\* C1 amended: the operations follow create, subject, behavioral series,
\* write, trials, electrodes, LFP, units, write, read, index, read, index: the
\* first write comes before every trial, electrode, LFP and unit is attached,
\* and no attach step happens after the second write
C1_CodeOrder ==
    /\ FollowsOrder(CodeOrder)
    /\ \A i, j \in 1..Len(ops) :
         (i < j /\ ops[i] = "write" /\ ops[j] \in AttachKinds) =>
             /\ ops[j] \notin {"subject", "behavior"}
             /\ \A k \in 1..(i - 1) : ops[k] # "write"
    /\ \A i \in 1..Len(ops) :
         (ops[i] = "write" /\ \E k \in 1..(i - 1) : ops[k] = "write") =>
             \E k \in 1..(i - 1) : ops[k] = "lfp"

C1_Witness ==
    /\ pc = "done"
    /\ Collapse(ops) = CodeOrder

----------------------------------------------------------------------------
(* C2: scoped acquisition of the file handles *)

IndexingStmts == {"r1_print", "r2_section", "r2_spikes"}

\* C2 as stated: at most one handle is open at a time, every handle is closed
\* before the next one is opened, no handle is open when the run has ended
\* (also when a read or print step raised), and every indexing of a lazily
\* backed array happens while the handle that produced it is open
C2_ScopedHandles ==
    /\ Cardinality(OpenHandles) <= 1
    /\ \A h \in 1..(Len(handles) - 1) : ~handles[h].open
    /\ Finished => OpenHandles = {}
    /\ pc \in IndexingStmts => nwbfile2 > 0 /\ handles[nwbfile2].open

----------------------------------------------------------------------------
(* C3: write followed by read round-trips the LFP array *)

LastWritten == written[Len(written)]

----------------------------------------------------------------------------
(* C4: a slice-indexed read returns the sub-block of the whole array *)

----------------------------------------------------------------------------
(* C5: the last print has a first unit to read *)

\* C5 as stated: whatever the draws of the unit counts and spike counts were,
\* the units table read back has at least one row when
\* units['spike_times'][0] is evaluated, so that the print cannot raise
C5_FirstUnitExists ==
    pc = "r2_spikes" => NumUnits(file.root[1].units) >= 1

----------------------------------------------------------------------------
(* C6: the LFP series references a valid, complete set of electrodes *)

RegionMade == pc \in {"lfp", "add_lfp"} \/ Len(nwbfile.ecephys) > 0

\* C6: once create_electrode_table_region has run, the region is the list
\* 0..N-1 with N = sum(shank_channels) the number of electrode rows, every
\* index of it is the id of an electrode row, and lfp_data has as many
\* columns as the region has entries
C6_RegionCoversElectrodes ==
    RegionMade =>
        /\ all_table_region = Range(Sum(shank_channels))
        /\ Len(nwbfile.electrodes) = Sum(shank_channels)
        /\ \A k \in 1..Len(all_table_region) :
             \E e \in 1..Len(nwbfile.electrodes) :
                 nwbfile.electrodes[e].id = all_table_region[k]
        /\ pc = "add_lfp" => NCols(lfp_data) = Len(all_table_region)
        /\ \A m \in 1..Len(nwbfile.ecephys) :
             /\ nwbfile.ecephys[m].electrodes = all_table_region
             /\ NCols(nwbfile.ecephys[m].data) = Len(nwbfile.ecephys[m].electrodes)
             /\ NCols(nwbfile.ecephys[m].data) = LfpCols

C6_Witness ==
    /\ Len(nwbfile.ecephys) = 1
    /\ Len(nwbfile.ecephys[1].electrodes) = LfpCols
    /\ Len(nwbfile.electrodes) = LfpCols

----------------------------------------------------------------------------
(* C7: the file is the file object as it was at the most recent write *)

NoWriteOpen == \A h \in OpenHandles : handles[h].mode # "w"

FileOf(nwb) == [exists |-> TRUE, root |-> <<Build(nwb)>>]

\* C7: outside a write session the file holds exactly the file object of the
\* most recent write; after the first write that is session metadata, subject
\* and the behavior module only; after the second it is also both trials, all
\* electrodes with their groups and device, the lfp series and every unit
\* added; what a read session sees is the whole file object, nothing missing
C7_FileIsLastWrite ==
    /\ (NoWriteOpen /\ Len(written) > 0) => file = FileOf(LastWritten)
    /\ (NoWriteOpen /\ Len(written) = 1) =>
           LET g == file.root[1] IN
           /\ g.identifier # <<>> /\ g.subject # <<>>
           /\ Len(g.behavior) = 1
           /\ g.trials.start_time = <<>>
           /\ g.devices = <<>> /\ g.electrode_groups = <<>>
           /\ g.electrodes.id = <<>>
           /\ g.ecephys = <<>>
           /\ NumUnits(g.units) = 0
    /\ (NoWriteOpen /\ Len(written) = 2) =>
           LET g == file.root[1] IN
           /\ g.identifier # <<>> /\ g.subject # <<>>
           /\ Len(g.behavior) = 1
           /\ Len(g.trials.start_time) = 2 /\ Len(g.trials.stop_time) = 2
           /\ g.devices = <<"implant">>
           /\ Len(g.electrode_groups) = Len(shank_channels)
           /\ Len(g.electrodes.id) = Sum(shank_channels)
           /\ Len(g.ecephys) = 1 /\ g.ecephys[1].name = "lfp"
           /\ NumUnits(g.units) = Len(unit_args)
    /\ Len(written) <= 2
    /\ \A k \in 1..Len(observed) : observed[k] = Content(FileOf(nwbfile))

C7_Witness ==
    /\ pc = "done"
    /\ Len(written) = 2
    /\ Len(observed) = 2
    /\ NumUnits(file.root[1].units) > 1

----------------------------------------------------------------------------
(* C8: the units table keeps each unit's spike times *)

SpikeLoopsDone ==
    Len(drawn) = Len(shank_channels) /\ pc \notin {"units_inner", "add_unit"}

\* C8: unit i of the table is exactly the sequence passed to the i-th
\* add_unit call (length, values, order; an empty sequence too); after the
\* loops the number of units is the sum of the unit counts drawn; the same
\* holds for the table as read back from the file
C8_RaggedUnits ==
    /\ NumUnits(nwbfile.units) = Len(unit_args)
    /\ \A i \in 1..Len(unit_args) : IndexedGet(nwbfile.units, i - 1) = unit_args[i]
    /\ SpikeLoopsDone => NumUnits(nwbfile.units) = Sum(drawn)
    /\ \A k \in 1..Len(observed) :
         /\ Len(observed[k][1].units) = Sum(drawn)
         /\ \A i \in 1..Len(unit_args) : observed[k][1].units[i] = unit_args[i]
    /\ \A k \in PrintedBy("r2_spikes") : printed[k].value = unit_args[1]

C8_Witness ==
    /\ pc = "done"
    /\ PrintedBy("r2_spikes") # {}
    /\ Len(unit_args) = Len(shank_channels)
    /\ unit_args[1] = <<>>
    /\ Len(unit_args[2]) = MaxSpikes

----------------------------------------------------------------------------
(* C9: reading leaves the file unchanged *)

ReadSessionStmts ==
    {"r1_open", "r1_read", "r1_print", "r1_exit", "r1_unwind",
     "r2_open", "r2_read", "r2_section", "r2_spikes", "r2_close"}

\* C9: no statement of a read session (open in mode 'r', read(), indexing,
\* close) changes the file, and the second read session sees the LFP values
\* and the units the first read session saw
C9_ReadLeavesFile ==
    [][/\ pc \in ReadSessionStmts => file' = file
       /\ Len(observed') = 2 => observed'[1] = observed'[2]]_vars

C9_Witness ==
    /\ pc = "done"
    /\ Len(observed) = 2
    /\ observed[2][1].units # <<>>
    /\ Len(observed[2][1].lfp) = 1

----------------------------------------------------------------------------
(* C10: electrode_counter counts the rows of the electrodes table *)

ElecLoopStmts ==
    {"create_device", "elec_for", "create_group", "elec_inner", "add_electrode",
     "counter_incr"}

\* ids of the electrode rows of group 'shank{n}'
GroupIds(n) ==
    {nwbfile.electrodes[k].id :
        k \in {e \in 1..Len(nwbfile.electrodes) :
                  nwbfile.electrodes[e].group = <<"shank", n>>}}

Offset(n) == Sum(SubSeq(shank_channels, 1, n))

\* C10: at every loop boundary electrode_counter is the number of rows of the
\* electrodes table (0 before the first add_electrode; between an
\* add_electrode and its `+= 1` the counter is the one row behind that the
\* increment makes up); when the outer loop has ended, group 'shank{n}' holds
\* shank_channels[n] rows whose ids are contiguous and in shank order
C10_CounterIsRowCount ==
    /\ electrode_counter < 0 => Len(nwbfile.electrodes) = 0
    /\ electrode_counter >= 0 =>
           IF pc = "counter_incr"
           THEN electrode_counter + 1 = Len(nwbfile.electrodes)
           ELSE electrode_counter = Len(nwbfile.electrodes)
    /\ \A k \in 1..Len(nwbfile.electrodes) : nwbfile.electrodes[k].id = k - 1
    /\ (electrode_counter >= 0 /\ pc \notin ElecLoopStmts) =>
           \A n \in 0..(Len(shank_channels) - 1) :
               GroupIds(n) = Offset(n)..(Offset(n) + shank_channels[n + 1] - 1)

C10_Witness ==
    /\ pc = "create_region"
    /\ electrode_counter = Sum(shank_channels)
    /\ Cardinality(GroupIds(0)) = 4
    /\ Cardinality(GroupIds(1)) = 3

----------------------------------------------------------------------------
(* C11: one timestamp per position sample *)

\* C11 as stated: the timestamps array passed to SpatialSeries has as many
\* entries as position_data has rows (100), in the series as built, as
\* attached to the behavior module and as written to the file
C11_OneTimestampPerSample ==
    /\ \A k \in 1..Len(spatial_series_object) :
         /\ Len(spatial_series_object[k].timestamps) = NRows(spatial_series_object[k].data)
         /\ NRows(spatial_series_object[k].data) = PositionRows
    /\ \A k \in 1..Len(nwbfile.behavior) :
         Len(nwbfile.behavior[k].timestamps) = NRows(nwbfile.behavior[k].data)
    /\ \A r \in 1..Len(file.root) : \A k \in 1..Len(file.root[r].behavior) :
         Len(file.root[r].behavior[k].timestamps) = file.root[r].behavior[k].data.shape[1]

====
